---- MODULE Spec2Model ----
(***************************************************************************)
(* pyver: PEP-440 version strings.  PackageVersion::new (src/src/version.rs)*)
(* matches a string against VALIDATION_REGEX (src/src/validator.rs), turns *)
(* the captures into segment values (src/src/ids) and the composite value  *)
(* is compared, tested for equality and hashed.                            *)
(*                                                                         *)
(* A string is a sequence of one-character strings.  Option<T> is a        *)
(* sequence of length 0 (None) or 1 (Some).  A u32 is kept as its decimal  *)
(* digits without leading zeros, so that the whole u32 range is covered.   *)
(***************************************************************************)
EXTENDS Integers, Sequences, FiniteSets, TLC

None == <<>>
Some(x) == <<x>>
IsSome(o) == Len(o) = 1
Unwrap(o) == o[1]

(***************************************************************************)
(* Character classes of the pattern.                                       *)
(***************************************************************************)
DigitChars == <<"0", "1", "2", "3", "4", "5", "6", "7", "8", "9">>
Digits == {DigitChars[k] : k \in 1..10}
LowerChars == {"a", "b", "c", "d", "e", "f", "g", "h", "i", "j", "k", "l", "m",
               "n", "o", "p", "q", "r", "s", "t", "u", "v", "w", "x", "y", "z"}
SepChars == {"-", "_", "."}
LocalChars == LowerChars \cup Digits

DigitVal(c) == (CHOOSE k \in 1..10 : DigitChars[k] = c) - 1

CharAt(s, i) == IF i >= 1 /\ i <= Len(s) THEN s[i] ELSE ""
IsDigitAt(s, i) == CharAt(s, i) \in Digits
IsSepAt(s, i) == CharAt(s, i) \in SepChars
Slice(s, from, to) == SubSeq(s, from, to - 1)

\* lit occurs in s at position i
LitAt(s, i, lit) ==
    /\ i + Len(lit) - 1 <= Len(s)
    /\ \A k \in 1..Len(lit) : s[i + k - 1] = lit[k]

\* the position after the longest run of characters of class cls starting at i
RECURSIVE RunEnd(_, _, _)
RunEnd(s, i, cls) == IF CharAt(s, i) \in cls THEN RunEnd(s, i + 1, cls) ELSE i

DigitsEnd(s, i) == RunEnd(s, i, Digits)

\* ['0'-'9']+ ("." ['0'-'9']+)* continued from position d, greedy
RECURSIVE DotGroupsEnd(_, _)
DotGroupsEnd(s, d) ==
    IF CharAt(s, d) = "." /\ IsDigitAt(s, d + 1)
    THEN DotGroupsEnd(s, DigitsEnd(s, d + 1))
    ELSE d

\* (["-" "_" "."] ['a'-'z' '0'-'9']+)* continued from position d, greedy
RECURSIVE LocalGroupsEnd(_, _)
LocalGroupsEnd(s, d) ==
    IF IsSepAt(s, d) /\ CharAt(s, d + 1) \in LocalChars
    THEN LocalGroupsEnd(s, RunEnd(s, d + 1, LocalChars))
    ELSE d

\* keyword alternations, in the order the pattern tries them
PreKeywords == << <<"p","r","e","v","i","e","w">>, <<"a","l","p","h","a">>,
                  <<"b","e","t","a">>, <<"p","r","e">>, <<"r","c">>,
                  <<"a">>, <<"b">>, <<"c">> >>
PostKeywords == << <<"p","o","s","t">>, <<"r","e","v">>, <<"r">> >>
DevKeywords == << <<"d","e","v">> >>

\* the first alternative of kws that occurs at position i, 0 when none does
FirstAlt(s, i, kws) ==
    LET hits == {k \in 1..Len(kws) : LitAt(s, i, kws[k])}
    IN  IF hits = {} THEN 0 ELSE CHOOSE k \in hits : \A j \in hits : k <= j

(***************************************************************************)
(* One keyword group  sep? keyword sep? digits?  tried at position p.      *)
(* Everything after the keyword is optional, so the first alternative that *)
(* occurs wins and both the separator and the digits are taken greedily.   *)
(* Without the leading separator the keyword would have to start with that *)
(* separator, so giving the separator back never produces a match.         *)
(***************************************************************************)
\* sep? digits? after the keyword that ends before position q2
KeywordTail(s, q2, l) ==
    LET q3 == IF IsSepAt(s, q2) THEN q2 + 1 ELSE q2
    IN  [ok |-> TRUE, end |-> DigitsEnd(s, q3), l |-> Some(l),
         n |-> IF DigitsEnd(s, q3) > q3 THEN Some(Slice(s, q3, DigitsEnd(s, q3))) ELSE None]

\* the keyword, alternative k of kws (0: none), tried at position q
KeywordAt(s, p, q, kws, k) ==
    IF k = 0
    THEN [ok |-> FALSE, end |-> p, l |-> None, n |-> None]
    ELSE KeywordTail(s, q + Len(kws[k]), kws[k])

KeywordFrom(s, p, q, kws) == KeywordAt(s, p, q, kws, FirstAlt(s, q, kws))

KeywordGroup(s, p, kws) == KeywordFrom(s, p, IF IsSepAt(s, p) THEN p + 1 ELSE p, kws)

\* :post( "-" :post_n1(digits+) | sep? :post_l(..) sep? :post_n2(digits+)? )?
PostKeywordGroup(g) == [ok |-> g.ok, end |-> g.end, l |-> g.l, n1 |-> None, n2 |-> g.n]

PostGroup(s, p) ==
    IF CharAt(s, p) = "-" /\ IsDigitAt(s, p + 1)
    THEN [ok |-> TRUE, end |-> DigitsEnd(s, p + 1), l |-> None,
          n1 |-> Some(Slice(s, p + 1, DigitsEnd(s, p + 1))), n2 |-> None]
    ELSE PostKeywordGroup(KeywordGroup(s, p, PostKeywords))

\* ( "+" :local( [a-z0-9]+ ((sep [a-z0-9]+)+)? ) )?
LocalTo(s, p, e) == [ok |-> TRUE, end |-> e, local |-> Some(Slice(s, p + 1, e))]

LocalGroup(s, p) ==
    IF CharAt(s, p) = "+" /\ CharAt(s, p + 1) \in LocalChars
    THEN LocalTo(s, p, LocalGroupsEnd(s, RunEnd(s, p + 1, LocalChars)))
    ELSE [ok |-> FALSE, end |-> p, local |-> None]

(***************************************************************************)
(* The pattern tried at start position i.  The only mandatory part is the  *)
(* release, so the only backtracking that can change the outcome is giving *)
(* up an epoch "digits!" that no release follows.                          *)
(***************************************************************************)
\* the position after the optional "v"
AfterV(s, i) == IF CharAt(s, i) = "v" THEN i + 1 ELSE i

\* (:epoch(digits+) "!")? is taken at p1 when a release can follow it
HasEpoch(s, p1) ==
    LET e == DigitsEnd(s, p1)
    IN  e > p1 /\ CharAt(s, e) = "!" /\ IsDigitAt(s, e + 1)

\* the position where the release starts
ReleaseStart(s, i) ==
    LET p1 == AfterV(s, i)
    IN  IF HasEpoch(s, p1) THEN DigitsEnd(s, p1) + 1 ELSE p1

\* the pattern matches at start position i
MatchesAt(s, i) == IsDigitAt(s, ReleaseStart(s, i))

\* the captures of the match at start position i, part by part: pos holds
\* the positions reached after "v"?, the epoch and the release
MatchLocal(s, pos, pre, post, dev, loc) ==
    [start |-> pos.start,
     end |-> loc.end,
     epoch |-> IF HasEpoch(s, pos.p1) THEN Some(Slice(s, pos.p1, pos.p2 - 1)) ELSE None,
     release |-> Some(Slice(s, pos.p2, pos.p3)),
     pre |-> IF pre.ok THEN Some(Slice(s, pos.p3, pre.end)) ELSE None,
     pre_l |-> pre.l,
     pre_n |-> pre.n,
     post |-> IF post.ok THEN Some(Slice(s, pre.end, post.end)) ELSE None,
     post_l |-> post.l,
     post_n1 |-> post.n1,
     post_n2 |-> post.n2,
     dev |-> IF dev.ok THEN Some(Slice(s, post.end, dev.end)) ELSE None,
     dev_n |-> dev.n,
     local |-> loc.local]

MatchDev(s, pos, pre, post, dev) == MatchLocal(s, pos, pre, post, dev, LocalGroup(s, dev.end))

MatchPost(s, pos, pre, post) ==
    MatchDev(s, pos, pre, post, KeywordGroup(s, post.end, DevKeywords))

MatchPre(s, pos, pre) == MatchPost(s, pos, pre, PostGroup(s, pre.end))

MatchRelease(s, pos) == MatchPre(s, pos, KeywordGroup(s, pos.p3, PreKeywords))

MatchFrom(s, i, p1, p2) ==
    MatchRelease(s, [start |-> i, p1 |-> p1, p2 |-> p2,
                     p3 |-> DotGroupsEnd(s, DigitsEnd(s, p2))])

MatchAt(s, i) == MatchFrom(s, i, AfterV(s, i), ReleaseStart(s, i))

\* the leftmost position from i on where the pattern matches, 0 when none
RECURSIVE FirstMatch(_, _)
FirstMatch(s, i) ==
    IF i > Len(s) THEN 0
    ELSE IF MatchesAt(s, i) THEN i
    ELSE FirstMatch(s, i + 1)

\* Regex::captures: the match at the leftmost position where the pattern
\* matches; the pattern has no anchors, so the match may start and end
\* anywhere in the string.
CapturesAt(version, i) ==
    IF i = 0
    THEN [ok |-> FALSE, kind |-> "GrammarMismatch", input |-> Some(version)]
    ELSE [ok |-> TRUE, caps |-> MatchAt(version, i)]

validate_440_version(version) == CapturesAt(version, FirstMatch(version, 1))

(***************************************************************************)
(* str::parse::<u32> of a digit run: the value when it fits 32 bits, an    *)
(* error otherwise.  Leading zeros do not count; the value is kept as its  *)
(* canonical digits.                                                       *)
(***************************************************************************)
U32MaxDigits == <<"4", "2", "9", "4", "9", "6", "7", "2", "9", "5">>

RECURSIVE StripZeros(_)
StripZeros(ds) == IF Len(ds) > 1 /\ ds[1] = "0" THEN StripZeros(Tail(ds)) ELSE ds

\* lexicographic order of two digit runs of the same length
RECURSIVE DigitsLess(_, _)
DigitsLess(a, b) ==
    IF a = <<>> THEN FALSE
    ELSE IF a[1] # b[1] THEN DigitVal(a[1]) < DigitVal(b[1])
    ELSE DigitsLess(Tail(a), Tail(b))

\* numeric order of two canonical digit runs
NumLess(a, b) == Len(a) < Len(b) \/ (Len(a) = Len(b) /\ DigitsLess(a, b))

ParseCanonical(ds, c) ==
    IF ds = <<>> \/ NumLess(U32MaxDigits, c)
    THEN [ok |-> FALSE]
    ELSE [ok |-> TRUE, val |-> c]

ParseU32(ds) == ParseCanonical(ds, StripZeros(ds))

\* Result<u32> wrapped into Result<Option<u32>>
SomeOf(r) == IF r.ok THEN [ok |-> TRUE, val |-> Some(r.val)] ELSE [ok |-> FALSE]

\* ParseOpt with the conversion error swallowed (parse::<u32>().ok())
ParseOptLenient(cap) ==
    IF IsSome(cap) /\ ParseU32(Unwrap(cap)).ok
    THEN SomeOf(ParseU32(Unwrap(cap)))
    ELSE [ok |-> TRUE, val |-> None]

\* an optional capture converted with parse::<u32>()?
ParseOpt(cap) ==
    IF IsSome(cap)
    THEN SomeOf(ParseU32(Unwrap(cap)))
    ELSE [ok |-> TRUE, val |-> None]

\* str::split('.'): the pieces of s between dots
RECURSIVE SplitDots(_)
SplitDots(s) ==
    LET dots == {i \in 1..Len(s) : s[i] = "."}
    IN  IF dots = {} THEN <<s>>
        ELSE LET d == CHOOSE i \in dots : \A j \in dots : i <= j
             IN  <<SubSeq(s, 1, d - 1)>> \o SplitDots(SubSeq(s, d + 1, Len(s)))

\* ReleaseHeader { major, minor } from the two conversions
ReleaseOf(ma, mi) ==
    IF ma.ok /\ mi.ok
    THEN [ok |-> TRUE, val |-> [major |-> ma.val, minor |-> mi.val]]
    ELSE [ok |-> FALSE]

\* ReleaseOfSplit with the last piece taken as minor
ReleaseOfSplitLast(split) == ReleaseOf(ParseU32(split[1]), ParseU32(split[Len(split)]))

ReleaseOfSplit(split) == ReleaseOf(ParseU32(split[1]), ParseU32(split[2]))

\* the release capture reduced to ReleaseHeader {major, minor}
ParseRelease(rel) ==
    IF \E i \in 1..Len(rel) : rel[i] = "."
    THEN ReleaseOfSplit(SplitDots(rel))
    ELSE ReleaseOf(ParseU32(rel), [ok |-> TRUE, val |-> <<"0">>])

\* PreVariant without the arm for "c"
PreVariantNoC(l) ==
    CASE l = <<"a","l","p","h","a">> -> "Alpha"
      [] l = <<"a">> -> "Alpha"
      [] l = <<"b","e","t","a">> -> "Beta"
      [] l = <<"b">> -> "Beta"
      [] l = <<"r","c">> -> "ReleaseCandidate"
      [] l = <<"p","r","e","v","i","e","w">> -> "Preview"
      [] l = <<"p","r","e">> -> "Preview"
      [] OTHER -> "none"

\* the keyword of pre_l folded into the PreHeader variant
PreVariant(l) ==
    CASE l = <<"a","l","p","h","a">> -> "Alpha"
      [] l = <<"a">> -> "Alpha"
      [] l = <<"b","e","t","a">> -> "Beta"
      [] l = <<"b">> -> "Beta"
      [] l = <<"r","c">> -> "ReleaseCandidate"
      [] l = <<"c">> -> "ReleaseCandidate"
      [] l = <<"p","r","e","v","i","e","w">> -> "Preview"
      [] l = <<"p","r","e">> -> "Preview"
      [] OTHER -> "none"

\* the keyword of post_l folded into PostHead
PostVariant(l) ==
    CASE l = <<"p","o","s","t">> -> Some("Post")
      [] l = <<"r","e","v">> -> Some("Rev")
      [] l = <<"r">> -> Some("Rev")
      [] OTHER -> None

\* the ParseIntError of a failed conversion; it does not carry the input
Overflow == [ok |-> FALSE, kind |-> "NumericOverflow", input |-> None]

(***************************************************************************)
(* PackageVersion::new                                                     *)
(***************************************************************************)
PreOf(m, pre_n) ==
    IF IsSome(m.pre) /\ PreVariant(Unwrap(m.pre_l)) # "none"
    THEN Some([tag |-> PreVariant(Unwrap(m.pre_l)), num |-> pre_n])
    ELSE None

PostOf(m, post_num) ==
    IF IsSome(m.post)
    THEN Some([post_head |-> IF IsSome(m.post_l) THEN PostVariant(Unwrap(m.post_l)) ELSE None,
               post_num |-> post_num])
    ELSE None

DevOf(m, dev_num) == IF IsSome(m.dev) THEN Some([dev_num |-> dev_num]) ELSE None

\* the conversions in the order of the code; the first that fails ends the call
Assemble(version, m, epoch, release, pre_n, post_num, dev_num) ==
    IF ~epoch.ok THEN Overflow
    ELSE IF ~release.ok THEN Overflow
    ELSE IF IsSome(m.pre) /\ ~pre_n.ok THEN Overflow
    ELSE IF IsSome(m.post) /\ ~post_num.ok THEN Overflow
    ELSE IF IsSome(m.dev) /\ ~dev_num.ok THEN Overflow
    ELSE [ok |-> TRUE,
          v |-> [original |-> version,
                 local |-> m.local,
                 dev |-> DevOf(m, dev_num.val),
                 post |-> PostOf(m, post_num.val),
                 pre |-> PreOf(m, pre_n.val),
                 release |-> release.val,
                 epoch |-> epoch.val]]

FromCaptures(version, m) ==
    Assemble(version, m,
             ParseOpt(m.epoch),
             ParseRelease(Unwrap(m.release)),
             ParseOpt(m.pre_n),
             ParseOpt(IF IsSome(m.post_n1) THEN m.post_n1 ELSE m.post_n2),
             ParseOpt(m.dev_n))

FromMatch(version, vm) == IF ~vm.ok THEN vm ELSE FromCaptures(version, vm.caps)

New(version) == FromMatch(version, validate_440_version(version))

(***************************************************************************)
(* Comparison of the segment types (src/src/ids).  An Ordering is one of   *)
(* "Less", "Equal", "Greater".                                             *)
(***************************************************************************)
\* u32 comparison
CmpU32(a, b) == IF a = b THEN "Equal" ELSE IF NumLess(a, b) THEN "Less" ELSE "Greater"

\* Option<T> comparison as derived by the standard library: None < Some(_),
\* and "Both" when the two payloads have to be compared
OptionOrder(a, b) ==
    IF ~IsSome(a) /\ ~IsSome(b) THEN "Equal"
    ELSE IF ~IsSome(a) THEN "Less"
    ELSE IF ~IsSome(b) THEN "Greater"
    ELSE "Both"

\* Option<u32> comparison
CmpOptU32(a, b) ==
    IF OptionOrder(a, b) = "Both" THEN CmpU32(Unwrap(a), Unwrap(b)) ELSE OptionOrder(a, b)

\* lexicographic chaining of field comparisons
ThenCmp(first, rest) == IF first # "Equal" THEN first ELSE rest

\* #[derive(PartialOrd)] struct DevHead { dev_num: Option<u32> }
DevHead_cmp(a, b) == CmpOptU32(a.dev_num, b.dev_num)

\* PostHeader compared as #[derive(PartialOrd)] would: post_head (None,
\* Post, Rev) first, then post_num
PostHeader_cmp_derived(a, b) ==
    IF a.post_head # b.post_head
    THEN (IF a.post_head = None \/ (a.post_head = Some("Post") /\ b.post_head = Some("Rev"))
          THEN "Less" ELSE "Greater")
    ELSE CmpOptU32(a.post_num, b.post_num)

\* impl Ord for PostHeader
PostHeader_cmp(a, b) ==
    IF a.post_num = b.post_num THEN "Equal"
    ELSE IF ~IsSome(a.post_num) /\ IsSome(b.post_num) THEN "Less"
    ELSE IF IsSome(a.post_num) /\ ~IsSome(b.post_num) THEN "Greater"
    ELSE IF CmpOptU32(a.post_num, b.post_num) = "Less" THEN "Less"
    ELSE "Greater"

\* PreRank for an enum declared Alpha, Beta, Preview, ReleaseCandidate
PreRankAlphaFirst(tag) ==
    CASE tag = "Alpha" -> 0
      [] tag = "Beta" -> 1
      [] tag = "Preview" -> 2
      [] tag = "ReleaseCandidate" -> 3

\* the position of a PreHeader variant in the enum declaration
PreRank(tag) ==
    CASE tag = "Beta" -> 0
      [] tag = "Alpha" -> 1
      [] tag = "Preview" -> 2
      [] tag = "ReleaseCandidate" -> 3

\* #[derive(PartialOrd)] enum PreHeader: variant position, then the payload
PreHeader_cmp(a, b) ==
    IF PreRank(a.tag) < PreRank(b.tag) THEN "Less"
    ELSE IF PreRank(a.tag) > PreRank(b.tag) THEN "Greater"
    ELSE CmpOptU32(a.num, b.num)

\* #[derive(PartialOrd)] struct ReleaseHeader { major, minor }
ReleaseHeader_cmp(a, b) == ThenCmp(CmpU32(a.major, b.major), CmpU32(a.minor, b.minor))

\* Option<DevHead>, Option<PostHeader>, Option<PreHeader> comparison
CmpOptDev(a, b) ==
    IF OptionOrder(a, b) = "Both" THEN DevHead_cmp(Unwrap(a), Unwrap(b)) ELSE OptionOrder(a, b)
CmpOptPost(a, b) ==
    IF OptionOrder(a, b) = "Both" THEN PostHeader_cmp(Unwrap(a), Unwrap(b)) ELSE OptionOrder(a, b)
CmpOptPre(a, b) ==
    IF OptionOrder(a, b) = "Both" THEN PreHeader_cmp(Unwrap(a), Unwrap(b)) ELSE OptionOrder(a, b)

(***************************************************************************)
(* PackageVersion: comparison, equality, hash (src/src/version.rs)         *)
(***************************************************************************)
\* the characters of the inputs in code point order
CodePointOrder == <<" ", "!", "+", "-", ".", "0", "1", "2", "3", "4", "5", "6", "7", "8",
                    "9", "A", "B", "C", "D", "E", "F", "G", "H", "I", "J", "K", "L", "M",
                    "N", "O", "P", "Q", "R", "S", "T", "U", "V", "W", "X", "Y", "Z",
                    "_", "a", "b", "c", "d", "e", "f", "g", "h", "i", "j", "k", "l",
                    "m", "n", "o", "p", "q", "r", "s", "t", "u", "v", "w", "x", "y", "z">>
CodePoint(c) == CHOOSE k \in 1..Len(CodePointOrder) : CodePointOrder[k] = c

\* String comparison: lexicographic by code point, a proper prefix is less
RECURSIVE CmpStr(_, _)
CmpStr(x, y) ==
    IF x = <<>> /\ y = <<>> THEN "Equal"
    ELSE IF x = <<>> THEN "Less"
    ELSE IF y = <<>> THEN "Greater"
    ELSE IF x[1] # y[1]
         THEN (IF CodePoint(x[1]) < CodePoint(y[1]) THEN "Less" ELSE "Greater")
    ELSE CmpStr(Tail(x), Tail(y))

\* Option<String> comparison
CmpOptStr(a, b) ==
    IF OptionOrder(a, b) = "Both" THEN CmpStr(Unwrap(a), Unwrap(b)) ELSE OptionOrder(a, b)

\* partial_cmp without the "ignore" on local: local is compared first
partial_cmp_with_local(a, b) ==
    ThenCmp(CmpOptStr(a.local, b.local),
    ThenCmp(CmpOptDev(a.dev, b.dev),
    ThenCmp(CmpOptPost(a.post, b.post),
    ThenCmp(CmpOptPre(a.pre, b.pre),
    ThenCmp(ReleaseHeader_cmp(a.release, b.release),
            CmpOptU32(a.epoch, b.epoch))))))

\* #[derivative(PartialOrd)]: the fields in declaration order, original and
\* local ignored: dev, post, pre, release, epoch
partial_cmp(a, b) ==
    ThenCmp(CmpOptDev(a.dev, b.dev),
    ThenCmp(CmpOptPost(a.post, b.post),
    ThenCmp(CmpOptPre(a.pre, b.pre),
    ThenCmp(ReleaseHeader_cmp(a.release, b.release),
            CmpOptU32(a.epoch, b.epoch)))))

\* #[derive(Ord)]: every field in declaration order, original and local
\* included: original, local, dev, post, pre, release, epoch
cmp(a, b) ==
    ThenCmp(CmpStr(a.original, b.original),
    ThenCmp(CmpOptStr(a.local, b.local),
    ThenCmp(CmpOptDev(a.dev, b.dev),
    ThenCmp(CmpOptPost(a.post, b.post),
    ThenCmp(CmpOptPre(a.pre, b.pre),
    ThenCmp(ReleaseHeader_cmp(a.release, b.release),
            CmpOptU32(a.epoch, b.epoch)))))))

\* impl PartialEq for PackageVersion
eq(a, b) ==
    /\ a.release = b.release
    /\ a.local = b.local
    /\ a.dev = b.dev
    /\ a.epoch = b.epoch
    /\ a.post = b.post
    /\ a.pre = b.pre

\* a hash calculated from the original field
hash_original(a) == <<a.original>>

\* impl Hash for PackageVersion: what is fed to the hasher, in order.  Two
\* hashes are equal exactly when the hasher was fed the same data.
hash(a) == <<a.release, a.local, a.dev, a.epoch, a.post, a.pre>>

\* Display that writes the release as "major.minor"
fmt_release(self) == self.release.major \o <<".">> \o self.release.minor

\* impl fmt::Display for PackageVersion: what is written to the formatter
fmt(self) == self.original

(***************************************************************************)
(* Input strings.  A version string is put together from one choice per    *)
(* segment, in the order of the grammar; at most MaxSegs of the optional   *)
(* segments are present.  SynonymInputs adds every keyword spelling.       *)
(***************************************************************************)
MaxSegs == 2
MaxEpoch == 1

Num(k) == <<DigitChars[k + 1]>>

VOpts == {<<"v">>}
EpochOpts == {Num(k) \o <<"!">> : k \in 0..MaxEpoch}
ReleaseOpts == {<<"1", ".", "0">>, <<"2", ".", "0">>}
PreOpts == {<<"a", "1">>, <<"b">>, <<"r", "c", "1">>}
PostOpts == {<<".", "p", "o", "s", "t", "1">>, <<"-", "2">>}
DevOpts == {<<".", "d", "e", "v", "1">>}
LocalOpts == {<<"+", "a", "b", "c", ".", "5">>, <<"+", "a", "b", "c", ".", "7">>}

Opt(S) == S \cup {<<>>}
Present(x) == IF x = <<>> THEN 0 ELSE 1

SegInputs ==
    {t[1] \o t[2] \o t[3] \o t[4] \o t[5] \o t[6] \o t[7] :
        t \in {u \in Opt(VOpts) \X Opt(EpochOpts) \X ReleaseOpts \X Opt(PreOpts)
                     \X Opt(PostOpts) \X Opt(DevOpts) \X Opt(LocalOpts) :
                  Present(u[1]) + Present(u[2]) + Present(u[4]) + Present(u[5])
                      + Present(u[6]) + Present(u[7]) <= MaxSegs}}

Keywords == {PreKeywords[k] : k \in 1..Len(PreKeywords)}
                \cup {PostKeywords[k] : k \in 1..Len(PostKeywords)}

SynonymInputs == {r \o kw \o n : r \in ReleaseOpts, kw \in Keywords, n \in {<<>>, <<"1">>}}

\* upper-case letters, and strings spelled with them
LowerSeq == <<"a", "b", "c", "d", "e", "f", "g", "h", "i", "j", "k", "l", "m",
              "n", "o", "p", "q", "r", "s", "t", "u", "v", "w", "x", "y", "z">>
UpperSeq == <<"A", "B", "C", "D", "E", "F", "G", "H", "I", "J", "K", "L", "M",
              "N", "O", "P", "Q", "R", "S", "T", "U", "V", "W", "X", "Y", "Z">>
UpperChar(c) ==
    IF c \in LowerChars THEN UpperSeq[CHOOSE k \in 1..26 : LowerSeq[k] = c] ELSE c
LowerChar(c) ==
    IF \E k \in 1..26 : UpperSeq[k] = c
    THEN LowerSeq[CHOOSE k \in 1..26 : UpperSeq[k] = c] ELSE c
ToUpper(s) == [i \in 1..Len(s) |-> UpperChar(s[i])]
ToLower(s) == [i \in 1..Len(s) |-> LowerChar(s[i])]
\* the first letter of s in upper case
Capitalize(s) ==
    [i \in 1..Len(s) |->
        IF s[i] \in LowerChars /\ \A j \in 1..(i - 1) : s[j] \notin LowerChars
        THEN UpperChar(s[i]) ELSE s[i]]

\* keyword-bearing version strings, all lower case, and their spellings in
\* upper and in mixed case
CaseBases == {<<"v", "1", ".", "0">>, <<"1", ".", "0", "r", "c", "1">>,
              <<"1", ".", "0", "a", "l", "p", "h", "a", "1">>,
              <<"1", ".", "0", ".", "p", "o", "s", "t", "1">>,
              <<"1", ".", "0", ".", "d", "e", "v", "1">>}
CaseInputs == CaseBases \cup {ToUpper(s) : s \in CaseBases}
                  \cup {Capitalize(s) : s \in CaseBases}

\* releases of one, two and three components, with and without leading zeros
ReleaseInputs == {<<"1">>, <<"1", ".", "0", ".", "5">>, <<"1", ".", "0", ".", "7">>,
                  <<"1", ".", "1", ".", "5">>, <<"0", "1", ".", "0">>,
                  <<"1", "a", "1">>, <<"1", ".", "0", ".", "5", "a", "1">>}

Inputs == SegInputs \cup SynonymInputs \cup CaseInputs \cup ReleaseInputs

(***************************************************************************)
(* The program: two strings are parsed, then the two values are compared   *)
(* with ==, with the comparison operators, or hashed.                      *)
(***************************************************************************)
VARIABLES pc, sa, sb, a, b, out

vars == <<pc, sa, sb, a, b, out>>

NoRes == [ok |-> FALSE, kind |-> "none", input |-> None]
NoOut == [op |-> "none", eq |-> FALSE, ord |-> "none", hashes |-> <<>>, text |-> <<>>]

Init ==
    /\ pc = "start"
    /\ sa = <<>>
    /\ sb = <<>>
    /\ a = NoRes
    /\ b = NoRes
    /\ out = NoOut

\* let a = PackageVersion::new(s)
NewFirst(S) ==
    /\ pc = "start"
    /\ \E s \in S : sa' = s /\ a' = New(s)
    /\ pc' = "first"
    /\ UNCHANGED <<sb, b, out>>

\* let b = PackageVersion::new(s)
NewSecond ==
    /\ pc = "first"
    /\ \E s \in Inputs : sb' = s /\ b' = New(s)
    /\ pc' = "second"
    /\ UNCHANGED <<sa, a, out>>

\* a == b
Eq ==
    /\ pc = "second" /\ a.ok /\ b.ok
    /\ out' = [NoOut EXCEPT !.op = "eq", !.eq = eq(a.v, b.v)]
    /\ pc' = "done"
    /\ UNCHANGED <<sa, sb, a, b>>

\* a.partial_cmp(&b), which decides a < b and a > b
PartialCmp ==
    /\ pc = "second" /\ a.ok /\ b.ok
    /\ out' = [NoOut EXCEPT !.op = "partial_cmp", !.ord = partial_cmp(a.v, b.v)]
    /\ pc' = "done"
    /\ UNCHANGED <<sa, sb, a, b>>

\* default_hash(&a), default_hash(&b)
Hash ==
    /\ pc = "second" /\ a.ok /\ b.ok
    /\ out' = [NoOut EXCEPT !.op = "hash", !.hashes = <<hash(a.v), hash(b.v)>>]
    /\ pc' = "done"
    /\ UNCHANGED <<sa, sb, a, b>>

\* a.cmp(&b), which decides sort, max and the place in a BTreeMap
Cmp ==
    /\ pc = "second" /\ a.ok /\ b.ok
    /\ out' = [NoOut EXCEPT !.op = "cmp", !.ord = cmp(a.v, b.v)]
    /\ pc' = "done"
    /\ UNCHANGED <<sa, sb, a, b>>

Next == NewFirst(Inputs) \/ NewSecond \/ Eq \/ PartialCmp \/ Hash \/ Cmp

Spec == Init /\ [][Next]_vars

(***************************************************************************)
(* The segment types on their own: two values of one segment type, built   *)
(* from their fields, are compared.  The numbers are 0..MaxNum and two     *)
(* larger ones.                                                            *)
(***************************************************************************)
MaxNum == 2

SegNums == {Num(k) : k \in 0..MaxNum}
               \cup {<<"1", "0">>, <<"4", "5", "0", "6", "7", "8", "8", "5">>}
OptNums == {None} \cup {Some(n) : n \in SegNums}

PreHeaders == [tag : {"Beta", "Alpha", "Preview", "ReleaseCandidate"}, num : OptNums]
PostHeaders == [post_head : {None, Some("Post"), Some("Rev")}, post_num : OptNums]
DevHeads == [dev_num : OptNums]

InitIds ==
    /\ \/ pc = "pre" /\ a \in PreHeaders /\ b \in PreHeaders
       \/ pc = "post" /\ a \in PostHeaders /\ b \in PostHeaders
       \/ pc = "dev" /\ a \in DevHeads /\ b \in DevHeads
    /\ sa = <<>>
    /\ sb = <<>>
    /\ out = NoOut

\* a.partial_cmp(&b) for two PreHeader values
PreCmp ==
    /\ pc = "pre"
    /\ out' = [NoOut EXCEPT !.op = "pre_cmp", !.ord = PreHeader_cmp(a, b)]
    /\ pc' = "done"
    /\ UNCHANGED <<sa, sb, a, b>>

\* a.cmp(&b) for two PostHeader values
PostCmp ==
    /\ pc = "post"
    /\ out' = [NoOut EXCEPT !.op = "post_cmp", !.ord = PostHeader_cmp(a, b)]
    /\ pc' = "done"
    /\ UNCHANGED <<sa, sb, a, b>>

\* a.cmp(&b) for two DevHead values
DevCmp ==
    /\ pc = "dev"
    /\ out' = [NoOut EXCEPT !.op = "dev_cmp", !.ord = DevHead_cmp(a, b)]
    /\ pc' = "done"
    /\ UNCHANGED <<sa, sb, a, b>>

NextIds == PreCmp \/ PostCmp \/ DevCmp

SpecIds == InitIds /\ [][NextIds]_vars

(***************************************************************************)
(* One string is parsed.  The strings carry digit runs at and beyond the   *)
(* u32 range in every numeric position, characters before and after the    *)
(* version (at most MaxSegs parts around the release), and strings that    *)
(* hold no version at all.                                                 *)
(***************************************************************************)
U32OverDigits == <<"4", "2", "9", "4", "9", "6", "7", "2", "9", "6">>
BigRuns == {U32MaxDigits, U32OverDigits}

JunkBefore == {<<>>, <<"x">>}
JunkAfter == {<<>>, <<"x">>, <<"+">>}
ParseEpochs == {<<>>} \cup {n \o <<"!">> : n \in {<<"1">>} \cup BigRuns}
ParseReleases ==
    {m \o r : m \in {<<"1">>} \cup BigRuns,
              r \in {<<>>, <<".", "0">>, <<".">> \o U32OverDigits,
                     <<".", "0", ".", "5">>, <<".", "0", ".">> \o U32OverDigits,
                     <<".">> \o U32OverDigits \o <<".", "5">>}}
ParsePres == {<<>>, <<"a", "1">>, <<"a">> \o U32OverDigits, <<"-", "r", "c">>}
ParsePosts == {<<>>, <<"-", "1">>, <<"-">> \o U32OverDigits, <<".", "p", "o", "s", "t", "1">>,
               <<".", "p", "o", "s", "t">> \o U32OverDigits}
ParseDevs == {<<>>, <<".", "d", "e", "v", "1">>, <<".", "d", "e", "v">> \o U32OverDigits}
ParseLocals == {<<>>, <<"+", "a", "b", "c", ".", "5">>}

NoVersionInputs ==
    {<<>>, <<"x">>, <<"v">>, <<"v", "!">>, <<".", "d", "e", "v">>,
     <<"n", "o", "t", " ", "a", " ", "v", "e", "r", "s", "i", "o", "n">>}

ParseInputs ==
    {t[1] \o t[2] \o t[3] \o t[4] \o t[5] \o t[6] \o t[7] \o t[8] \o t[9] :
        t \in {u \in JunkBefore \X Opt(VOpts) \X ParseEpochs \X ParseReleases \X ParsePres
                     \X ParsePosts \X ParseDevs \X ParseLocals \X JunkAfter :
                  Present(u[1]) + Present(u[2]) + Present(u[3]) + Present(u[5])
                      + Present(u[6]) + Present(u[7]) + Present(u[8]) + Present(u[9])
                      <= MaxSegs}}

\* a.to_string()
Display ==
    /\ pc = "first" /\ a.ok
    /\ out' = [NoOut EXCEPT !.op = "display", !.text = fmt(a.v)]
    /\ pc' = "done"
    /\ UNCHANGED <<sa, sb, a, b>>

NextParse == NewFirst(NoVersionInputs) \/ NewFirst(ParseInputs) \/ Display

SpecParse == Init /\ [][NextParse]_vars

(***************************************************************************)
(* The language of the pattern: the strings the pattern matches from their *)
(* first to their last character.  Each operator maps a set P of positions *)
(* to the set of positions a part of the pattern can reach from P.         *)
(***************************************************************************)
RunEnds(s, P, cls) ==
    {q \in 1..(Len(s) + 1) : \E p \in P : p < q /\ \A k \in p..(q - 1) : s[k] \in cls}
LitEnds(s, P, lit) == {p + Len(lit) : p \in {x \in P : LitAt(s, x, lit)}}
AltEnds(s, P, kws) == UNION {LitEnds(s, P, kws[k]) : k \in 1..Len(kws)}
OptSepEnds(s, P) == P \cup {p + 1 : p \in {x \in P : IsSepAt(s, x)}}
KeywordGroupEnds(s, P, kws) ==
    LET Q == OptSepEnds(s, AltEnds(s, OptSepEnds(s, P), kws))
    IN  Q \cup RunEnds(s, Q, Digits)

\* (sep run-of-cls)* from P, sep being one of the characters seps
RECURSIVE StarEnds(_, _, _, _)
StarEnds(s, P, seps, cls) ==
    LET Q == P \cup RunEnds(s, {p + 1 : p \in {x \in P : CharAt(s, x) \in seps}}, cls)
    IN  IF Q = P THEN P ELSE StarEnds(s, Q, seps, cls)

PatternEnds(s, P) ==
    LET P1 == P \cup LitEnds(s, P, <<"v">>)
        P2 == P1 \cup LitEnds(s, RunEnds(s, P1, Digits), <<"!">>)
        P3 == StarEnds(s, RunEnds(s, P2, Digits), {"."}, Digits)
        P4 == P3 \cup KeywordGroupEnds(s, P3, PreKeywords)
        P5 == P4 \cup RunEnds(s, LitEnds(s, P4, <<"-">>), Digits)
                 \cup KeywordGroupEnds(s, P4, PostKeywords)
        P6 == P5 \cup KeywordGroupEnds(s, P5, DevKeywords)
        P7 == P6 \cup StarEnds(s, RunEnds(s, LitEnds(s, P6, <<"+">>), LocalChars),
                               SepChars, LocalChars)
    IN  P7

MatchesEntirely(s) == (Len(s) + 1) \in PatternEnds(s, {1})

(***************************************************************************)
(* Properties                                                              *)
(***************************************************************************)
\* the two values agree on epoch, release, pre, post and dev
SameFive(x, y) ==
    /\ x.epoch = y.epoch
    /\ x.release = y.release
    /\ x.pre = y.pre
    /\ x.post = y.post
    /\ x.dev = y.dev

\* the epoch, an absent epoch counting as 0
EpochOrZero(x) == IF IsSome(x.epoch) THEN Unwrap(x.epoch) ELSE <<"0">>

\* C1: two parsed versions with the same epoch, release, pre, post and dev
\* are equal under ==, whatever their local segments and original strings.
C1_EqIgnoresLocalAndOriginal ==
    (out.op = "eq" /\ SameFive(a.v, b.v)) => out.eq

\* C2: when the release segments of two parsed versions differ, comparing
\* the versions gives the result of comparing their release segments.
C2_ReleaseIsPrimaryKey ==
    (out.op = "partial_cmp" /\ a.v.release # b.v.release)
        => out.ord = ReleaseHeader_cmp(a.v.release, b.v.release)

\* C3: a version with a higher epoch (absent = 0) compares greater,
\* whatever the other segments are.
C3_HigherEpochOutranks ==
    (out.op = "partial_cmp" /\ NumLess(EpochOrZero(b.v), EpochOrZero(a.v)))
        => out.ord = "Greater"

\* C5: for a version string s without an epoch, parse("0!" + s) == parse(s).
C5_AbsentEpochIsZero ==
    (out.op = "eq" /\ sa = <<"0", "!">> \o sb /\ ~IsSome(b.v.epoch)) => out.eq

\* C6: the version parsed from a release followed by a pre-release segment
\* compares less than the version parsed from the release alone.
C6_PreReleasePrecedesRelease ==
    (out.op = "partial_cmp" /\ sb \in ReleaseOpts
        /\ \E p \in PreOpts \cup {kw \in Keywords : PreVariant(kw) # "none"} :
              sa = sb \o p)
        => out.ord = "Less"

\* C7: versions that are equal under ==, and versions that differ only in
\* local or original, are reported as equal by the comparator (neither
\* a < b nor a > b).
C7_CmpConsistentWithEq ==
    (out.op = "partial_cmp" /\ (eq(a.v, b.v) \/ SameFive(a.v, b.v)))
        => out.ord = "Equal"

C7_Witness ==
    /\ out.op = "partial_cmp"
    /\ SameFive(a.v, b.v)
    /\ a.v.local # b.v.local
    /\ a.v.original # b.v.original
    /\ out.ord = "Equal"

\* C8: two parsed versions that agree on epoch, release, pre, post and dev
\* have the same hash, whatever their local segments and original strings.
C8_HashOnlyFromFive ==
    (out.op = "hash" /\ SameFive(a.v, b.v)) => out.hashes[1] = out.hashes[2]

C11_KeywordsCaseInsensitive ==
    (pc \in {"second", "done"} /\ sa # sb /\ ToLower(sa) = sb /\ b.ok)
        => (a.ok /\ SameFive(a.v, b.v))

\* the short and the long spelling of each keyword that has two
SynonymPairs == {<< <<"a">>, <<"a","l","p","h","a">> >>,
                 << <<"b">>, <<"b","e","t","a">> >>,
                 << <<"c">>, <<"r","c">> >>,
                 << <<"p","r","e">>, <<"p","r","e","v","i","e","w">> >>,
                 << <<"r">>, <<"r","e","v">> >>}

\* y is x with the keyword that follows the release spelled the long way
LongSpelling(x, y) ==
    \E pr \in SynonymPairs, i \in 1..(Len(x) + 1) :
        /\ Len(y) = Len(x) + Len(pr[2]) - Len(pr[1])
        /\ \A k \in 1..(i - 1) : x[k] \in Digits \cup SepChars \cup {"v", "!"}
        /\ LitAt(x, i, pr[1])
        /\ CharAt(x, i + Len(pr[1])) \notin LowerChars
        /\ y = SubSeq(x, 1, i - 1) \o pr[2] \o SubSeq(x, i + Len(pr[1]), Len(x))

\* x and y differ only in the spelling of a keyword or in the leading "v"
SynonymSpelling(x, y) ==
    \/ LongSpelling(x, y) \/ LongSpelling(y, x)
    \/ x = <<"v">> \o y \/ y = <<"v">> \o x

\* C12: two version strings that differ only in the spelling of a keyword
\* ("a"/"alpha", "b"/"beta", "c"/"rc", "pre"/"preview", "r"/"rev") or in the
\* leading "v" parse to the same pre and post segments and to equal versions.
C12_SynonymsParseEqual ==
    (out.op = "eq" /\ SynonymSpelling(sa, sb))
        => (out.eq /\ a.v.pre = b.v.pre /\ a.v.post = b.v.post)

C12_Witness ==
    /\ out.op = "eq"
    /\ LongSpelling(sa, sb)
    /\ a.v.pre = Some([tag |-> "ReleaseCandidate", num |-> Some(<<"1">>)])
    /\ a.v.release.major = <<"2">>
    /\ out.eq

\* the number a digit run denotes
RECURSIVE DigitsToInt(_)
DigitsToInt(ds) ==
    IF ds = <<>> THEN 0
    ELSE 10 * DigitsToInt(SubSeq(ds, 1, Len(ds) - 1)) + DigitVal(ds[Len(ds)])

IntOrder(x, y) == IF x < y THEN "Less" ELSE IF x > y THEN "Greater" ELSE "Equal"

\* absent < present(0) < present(1) < ...
OptNumOrder(x, y) ==
    IF x = None /\ y = None THEN "Equal"
    ELSE IF x = None THEN "Less"
    ELSE IF y = None THEN "Greater"
    ELSE IntOrder(DigitsToInt(Unwrap(x)), DigitsToInt(Unwrap(y)))

\* the variants from lowest to highest
VariantRanks == <<"Beta", "Alpha", "Preview", "ReleaseCandidate">>
RankOf(tag) == CHOOSE k \in 1..Len(VariantRanks) : VariantRanks[k] = tag

\* C13: two PreHeader values of different variants compare by the rank
\* Beta < Alpha < Preview < ReleaseCandidate, whatever their numbers; within
\* one variant an absent number is lower than any present one and present
\* numbers compare numerically.
C13_PreHeaderOrder ==
    (out.op = "pre_cmp")
        => out.ord = IF a.tag # b.tag
                     THEN IntOrder(RankOf(a.tag), RankOf(b.tag))
                     ELSE OptNumOrder(a.num, b.num)

C13_Witness ==
    /\ out.op = "pre_cmp"
    /\ a = [tag |-> "ReleaseCandidate", num |-> Some(<<"1">>)]
    /\ b = [tag |-> "Beta", num |-> Some(<<"4", "5", "0", "6", "7", "8", "8", "5">>)]
    /\ out.ord = "Greater"

\* C14: two PostHeader values compare as their post_num fields do under
\* absent < present(0) < present(1) < ..., whatever their post_head fields;
\* two DevHead values compare as their dev_num fields do under the same rule.
C14_PostAndDevOrderByNumber ==
    /\ (out.op = "post_cmp") => out.ord = OptNumOrder(a.post_num, b.post_num)
    /\ (out.op = "dev_cmp") => out.ord = OptNumOrder(a.dev_num, b.dev_num)

C14_Witness ==
    /\ out.op = "post_cmp"
    /\ a = [post_head |-> Some("Rev"), post_num |-> Some(<<"2">>)]
    /\ b = [post_head |-> None, post_num |-> Some(<<"1", "0">>)]
    /\ out.ord = "Less"

\* C15: the Display output of a successfully parsed version is the input
\* string, character for character.
C15_DisplayRoundTrip ==
    (out.op = "display") => out.text = sa

C15_Witness ==
    /\ out.op = "display"
    /\ sa[1] = "v"
    /\ IsSome(a.v.local)
    /\ a.v.release = [major |-> <<"1">>, minor |-> <<"0">>]
    /\ Len(sa) > 3
    /\ out.text = sa

\* the release a string starts with, and what follows it
LeadingRelease(x) == Slice(x, 1, DotGroupsEnd(x, DigitsEnd(x, 1)))
AfterRelease(x) == SubSeq(x, DotGroupsEnd(x, DigitsEnd(x, 1)), Len(x))

\* the first and the second component of a release, 0 for a missing second
FirstComponent(rel) == Slice(rel, 1, DigitsEnd(rel, 1))
SecondComponent(rel) ==
    IF DigitsEnd(rel, 1) > Len(rel) THEN <<"0">>
    ELSE Slice(rel, DigitsEnd(rel, 1) + 1, DigitsEnd(rel, DigitsEnd(rel, 1) + 1))

\* x and y start with a release, and differ only in the third and later
\* components of it or in a second component ".0" that one of them leaves out
SameUpToLaterComponents(x, y) ==
    /\ IsDigitAt(x, 1) /\ IsDigitAt(y, 1)
    /\ "!" \notin {x[k] : k \in 1..Len(x)} \cup {y[k] : k \in 1..Len(y)}
    /\ FirstComponent(LeadingRelease(x)) = FirstComponent(LeadingRelease(y))
    /\ SecondComponent(LeadingRelease(x)) = SecondComponent(LeadingRelease(y))
    /\ AfterRelease(x) = AfterRelease(y)

\* C16: major is the value of the first component of the captured release,
\* minor the value of the second, or 0 when there is one component; later
\* components are dropped, so versions that differ only in them are equal,
\* and a one-component release equals the same release followed by ".0".
C16_ReleaseReduction ==
    /\ (pc = "first" /\ a.ok)
          => a.v.release =
                [major |-> StripZeros(FirstComponent(Unwrap(validate_440_version(sa).caps.release))),
                 minor |-> StripZeros(SecondComponent(Unwrap(validate_440_version(sa).caps.release)))]
    /\ (out.op = "eq" /\ SameUpToLaterComponents(sa, sb)) => out.eq

C16_Witness ==
    /\ out.op = "eq"
    /\ sa = <<"1", "a", "1">>
    /\ sb = <<"1", ".", "0", ".", "5", "a", "1">>
    /\ a.v.release = [major |-> <<"1">>, minor |-> <<"0">>]
    /\ out.eq

\* C17: Ord::cmp of two parsed versions gives what partial_cmp gives, and
\* Equal whenever the two are equal under ==.
C17_CmpAgreesWithPartialCmp ==
    (out.op = "cmp")
        => /\ out.ord = partial_cmp(a.v, b.v)
           /\ eq(a.v, b.v) => out.ord = "Equal"

\* C4: a string that does not match the grammar from its first to its last
\* character is rejected, and the error carries the string.
C4_NoPartialAcceptance ==
    (pc = "first" /\ ~MatchesEntirely(sa)) => (~a.ok /\ a.input = Some(sa))

\* the digit run, as a number, is greater than 2^32 - 1
ExceedsU32(ds) == NumLess(U32MaxDigits, StripZeros(ds))
OptExceedsU32(cap) == IsSome(cap) /\ ExceedsU32(Unwrap(cap))

\* some captured digit run of m exceeds the u32 range, the release counted
\* up to its first n components
CapturedOverflow(m, n) ==
    LET comps == SplitDots(Unwrap(m.release))
    IN  \/ OptExceedsU32(m.epoch)
        \/ \E k \in 1..Len(comps) : k <= n /\ ExceedsU32(comps[k])
        \/ OptExceedsU32(m.pre_n)
        \/ OptExceedsU32(m.post_n1)
        \/ OptExceedsU32(m.post_n2)
        \/ OptExceedsU32(m.dev_n)

\* C10 as claimed: parse fails whenever a captured digit run exceeds the u32
\* range, in the epoch, in any component of the release, or in the pre,
\* post or dev number.
C10_OverflowFailsEveryComponent ==
    (pc = "first" /\ validate_440_version(sa).ok
        /\ CapturedOverflow(validate_440_version(sa).caps, Len(sa)))
        => ~a.ok

\* C10 amended: parse fails whenever the epoch, the first or the second
\* component of the release, or the pre, post or dev number exceeds the u32
\* range; later components of the release are never converted.
C10_OverflowFails ==
    (pc = "first" /\ validate_440_version(sa).ok
        /\ CapturedOverflow(validate_440_version(sa).caps, 2))
        => (~a.ok /\ a.kind = "NumericOverflow")

C10_Witness ==
    /\ pc = "first"
    /\ validate_440_version(sa).ok
    /\ OptExceedsU32(validate_440_version(sa).caps.dev_n)
    /\ ~OptExceedsU32(validate_440_version(sa).caps.epoch)
    /\ ~a.ok

====
